---- MODULE Spec2Model ----
(***************************************************************************)
(* Call Transcript Analyzer (src/app.py): the sliding-window rate limiter, *)
(* the size limiter, the PII redactor, the retrying Groq client, the       *)
(* analysis orchestrator and the two request handlers that call it.        *)
(*                                                                         *)
(* Text is a sequence of one-character strings over the alphabet Chars.    *)
(* Time is the wall clock (time.time(), datetime.utcnow()) in whole        *)
(* seconds; backoff sleeps are counted in half seconds.                    *)
(***************************************************************************)
EXTENDS Integers, Sequences, FiniteSets, TLC

(***************************************************************************)
(* Bounds of the model.                                                    *)
(***************************************************************************)
MaxTime == 2
MaxCalls == 4
MaxRows == 2

(***************************************************************************)
(* Program constants (src/app.py:36-38, :60), scaled down.                 *)
(***************************************************************************)
MAX_TRANSCRIPT_CHARS == 8
RATE_LIMIT_MAX == 2
RATE_LIMIT_WINDOW_SEC == 1
MAX_ATTEMPTS == 4

Threads == {1, 2}
\* The thread that serves the requests when they are handled one at a time.
Workers == {1}
Keys == {"A", "B"}
\* request.remote_addr of the clients that post transcripts.
Clients == {"A"}
NoVal == "None"

(***************************************************************************)
(* Text.                                                                   *)
(***************************************************************************)
Chars == {"a", "@", ".", " "}
Whitespace == {" "}
\* The character classes of the e-mail pattern (src/app.py:76), cut to Chars.
LocalChars == {"a", "."}
DomainChars == {"a", "."}
AlphaChars == {"a"}

REDACTED_EMAIL == "[REDACTED_EMAIL]"
TRUNCATED == <<"\n", "[TRUNCATED]">>

\* str.strip(): leading and trailing whitespace removed.
RECURSIVE LStrip(_)
LStrip(s) ==
    IF s = <<>> THEN s
    ELSE IF Head(s) \in Whitespace THEN LStrip(Tail(s)) ELSE s

RECURSIVE RStrip(_)
RStrip(s) ==
    IF s = <<>> THEN s
    ELSE IF s[Len(s)] \in Whitespace THEN RStrip(SubSeq(s, 1, Len(s) - 1)) ELSE s

Strip(s) == RStrip(LStrip(s))

\* text[:MAX_TRANSCRIPT_CHARS] when the text is longer than the ceiling.
\* Truncate keeping the end of the text instead of its beginning.
TruncateTail(text, c) == SubSeq(text, Len(text) - c + 1, Len(text))

\* text[:c] for a text longer than c >= 0.
Truncate(text, c) == SubSeq(text, 1, c)

within_size_limit(text) ==
    IF Len(text) <= MAX_TRANSCRIPT_CHARS THEN text
    ELSE Truncate(text, MAX_TRANSCRIPT_CHARS)

\* The last index of the longest run of characters of class cls that starts
\* at index i (i - 1 when s[i] is not in cls).
RECURSIVE RunEnd(_, _, _)
RunEnd(s, i, cls) ==
    IF i <= Len(s) /\ s[i] \in cls THEN RunEnd(s, i + 1, cls) ELSE i - 1

\* Where the e-mail pattern [local]+@[domain]+\.[alpha]{2,} matched from index
\* i ends, 0 when it does not match there.  Every quantifier is greedy: the
\* local part is the whole run up to "@", the domain gives back characters
\* until a "." followed by two letters is found, the last part takes every
\* letter that follows.
EmailMatchEnd(s, i) ==
    LET le == RunEnd(s, i, LocalChars)
        ds == le + 2
        de == RunEnd(s, ds, DomainChars)
        dots == {k \in (ds + 1)..(de - 2) :
                    /\ s[k] = "."
                    /\ s[k + 1] \in AlphaChars
                    /\ s[k + 2] \in AlphaChars}
        k == CHOOSE x \in dots : \A y \in dots : y <= x
    IN  IF le < i \/ le + 1 > Len(s) THEN 0
        ELSE IF s[le + 1] # "@" THEN 0
        ELSE IF dots = {} THEN 0
        ELSE RunEnd(s, k + 1, AlphaChars)

\* re.sub of the e-mail pattern from index i on: leftmost matches, one after
\* the other, each replaced by the token.
RECURSIVE SubEmail(_, _)
SubEmail(s, i) ==
    IF i > Len(s) THEN <<>>
    ELSE LET e == EmailMatchEnd(s, i)
         IN  IF e > 0 THEN <<REDACTED_EMAIL>> \o SubEmail(s, e + 1)
             ELSE <<s[i]>> \o SubEmail(s, i + 1)

\* The phone and the card pattern (src/app.py:78, :80) both need a digit to
\* match; Chars and the token hold none, so on this text they change nothing.
redact_pii(text) ==
    IF text = <<>> THEN text ELSE SubEmail(text, 1)

\* Whether sub occurs in s at index i.
OccursAt(s, sub, i) ==
    /\ i >= 1
    /\ i + Len(sub) - 1 <= Len(s)
    /\ SubSeq(s, i, i + Len(sub) - 1) = sub

Contains(s, sub) == \E i \in 1..(Len(s) + 1) : OccursAt(s, sub, i)

\* str.replace(old, new) for a non-empty old: every occurrence, left to right,
\* without overlap.
RECURSIVE ReplaceFrom(_, _, _, _)
ReplaceFrom(s, old, new, i) ==
    IF i > Len(s) THEN <<>>
    ELSE IF OccursAt(s, old, i) THEN new \o ReplaceFrom(s, old, new, i + Len(old))
    ELSE <<s[i]>> \o ReplaceFrom(s, old, new, i + 1)

Replace(s, old, new) ==
    IF old = <<>> THEN s ELSE ReplaceFrom(s, old, new, 1)

HasPII(s) == \E i \in 1..Len(s) : EmailMatchEnd(s, i) > 0

(***************************************************************************)
(* Inputs of the environment.                                              *)
(***************************************************************************)
\* The text before the transcript in the two prompts (src/app.py:372-375 and
\* :380-383): letters, blanks and dots, ending in "Transcript:\n".
SUMMARY_PREFIX == <<"a", ".", " ">>
SENTIMENT_PREFIX == <<"a", "a", ".", " ">>

\* Transcripts a client submits: empty, blank, padded, holding an address.
Transcripts ==
    { <<>>,
      <<" ">>,
      <<" ", "a">>,
      <<"a", "@", "a", ".", "a", "a">> }

\* Transcripts around the ceiling of the size limit: short, padded, exactly
\* at the ceiling, and over it with no address, with an address the limit
\* keeps and with an address the limit cuts.
TextTranscripts ==
    { <<"a">>,
      <<" ", "a", "@", "a", ".", "a", "a", " ">>,
      <<"a", " ", "a", "@", "a", ".", "a", "a">>,
      <<"a", "@", "a", ".", "a", "a", " ", "a", ".">>,
      <<"a", "a", " ", "a", "@", "a", ".", "a", "a">>,
      <<"a", "a", "a", "a", "a", "a", "a", "a", "a">> }

\* What choices[0].message.content of a well-formed response may hold: the
\* answers to the summary prompt (call 1) and to the sentiment prompt (call 2).
Replies(call) ==
    IF call = 1 THEN { <<" ", "a">>, <<".">> } ELSE { <<".", " ">> }

\* requests.exceptions.RequestException raised by post() (line 62) or by
\* raise_for_status() (line 63).
NetErrors == {"Timeout", "HTTPError"}

\* What response.json() raises on a 2xx body that is no JSON (line 64):
\* requests.exceptions.JSONDecodeError, a RequestException, since requests
\* 2.27, and json's or simplejson's own JSONDecodeError, a ValueError, before.
JSONErrors == {"JSONDecodeError"}

\* The exceptions of one attempt that the except clause of line 65 catches.
RequestExceptions == NetErrors \cup JSONErrors

(***************************************************************************)
(* Values.                                                                 *)
(***************************************************************************)
NoErr == [kind |-> NoVal, attempt |-> -1]
NoExc == [type |-> NoVal, msg |-> NoVal, cause |-> NoErr]
RateLimitExceeded ==
    [type |-> "RuntimeError", msg |-> "Rate limit exceeded. Please try again later.",
     cause |-> NoErr]
EmptyInput ==
    [type |-> "ValueError", msg |-> "Transcript cannot be empty.", cause |-> NoErr]
MissingCredential ==
    [type |-> "RuntimeError", msg |-> "Missing GROQ_API_KEY.", cause |-> NoErr]
RetriesExhausted(last_err) ==
    [type |-> "RuntimeError", msg |-> "Groq API request failed after retries",
     cause |-> last_err]
MalformedResponse == [type |-> "KeyError", msg |-> "choices", cause |-> NoErr]
NotJSON == [type |-> "ValueError", msg |-> "Expecting value", cause |-> NoErr]
NotAString == [type |-> "AttributeError", msg |-> "strip", cause |-> NoErr]

NoResult == [transcript |-> <<>>, summary |-> <<>>, sentiment |-> <<>>, timestamp |-> -1]
NoResponse == [kind |-> NoVal, by |-> NoVal, error |-> NoExc, result |-> NoResult]

HeaderRow ==
    [kind |-> "header", transcript |-> <<"Transcript">>, summary |-> <<"Summary">>,
     sentiment |-> <<"Sentiment">>, timestamp |-> -1]
\* DataRow with two columns exchanged.
DataRowSwapped(transcript, summary, sentiment, timestamp) ==
    [kind |-> "data", transcript |-> transcript, summary |-> sentiment,
     sentiment |-> summary, timestamp |-> timestamp]

DataRow(transcript, summary, sentiment, timestamp) ==
    [kind |-> "data", transcript |-> transcript, summary |-> summary,
     sentiment |-> sentiment, timestamp |-> timestamp]

(***************************************************************************)
(* State.                                                                  *)
(***************************************************************************)
VARIABLES
    GROQ_API_KEY,   \* whether the environment sets a key (src/app.py:23)
    clock,          \* the wall clock
    RATE_BUCKET,    \* _RATE_BUCKET: client key -> admitted timestamps
    csv,            \* the file at CSV_PATH: whether it exists, and its rows
    pc,             \* where each request thread stands
    loc,            \* each request thread's local variables
    calls,          \* history: the direct calls of rate_limit_or_raise
    completed       \* history: the results analyze_transcript returned

vars == <<GROQ_API_KEY, clock, RATE_BUCKET, csv, pc, loc, calls, completed>>

\* The locals of rate_limit_or_raise and what its caller sees of the call:
\* now, the bucket before (pre) and after (post), the length the check saw
\* (seen), and how it ended (rl).
RlLocals == [now |-> -1, pre |-> <<>>, post |-> <<>>, rl |-> NoVal, seen |-> -1]

\* The locals of call_groq: the attempt, the half seconds slept so far, the
\* last error, the content of the response (reply), and how it ended (groq).
GroqLocals ==
    [attempt |-> 0, slept |-> 0, last_err |-> NoErr, reply |-> <<>>, groq |-> NoVal,
     tries |-> 0]

\* What dies when rate_limit_or_raise returns; now, post and rl stay as the
\* record of the admission.
RlScratch == [pre |-> <<>>]

InitLoc ==
    [handler |-> NoVal, phase |-> NoVal, key |-> NoVal, transcript |-> <<>>,
     now |-> -1, pre |-> <<>>, post |-> <<>>, rl |-> NoVal, seen |-> -1,
     original_length |-> 0, was_truncated |-> FALSE, redacted |-> <<>>,
     call |-> 0, prompt |-> <<>>,
     attempt |-> 0, slept |-> 0, last_err |-> NoErr, reply |-> <<>>, groq |-> NoVal,
     tries |-> 0,
     posted |-> {}, summary |-> <<>>, sentiment |-> <<>>,
     file_exists |-> FALSE, timestamp |-> -1,
     exc |-> NoExc, response |-> NoResponse,
     csv0 |-> [exists |-> FALSE, rows |-> <<>>],
     received |-> <<>>]

Merge(r, u) == [f \in DOMAIN r |-> IF f \in DOMAIN u THEN u[f] ELSE r[f]]

\* Thread t goes to label with the locals in u changed.
Goto(t, label, u) ==
    /\ pc' = [pc EXCEPT ![t] = label]
    /\ loc' = [loc EXCEPT ![t] = Merge(loc[t], u)]

Init ==
    /\ GROQ_API_KEY \in BOOLEAN
    /\ clock = 0
    /\ RATE_BUCKET = [k \in Keys |-> <<>>]
    /\ csv = [exists |-> FALSE, rows |-> <<>>]
    /\ pc = [t \in Threads |-> "idle"]
    /\ loc = [t \in Threads |-> InitLoc]
    /\ calls = <<>>
    /\ completed = <<>>

DataRows(rows) == SelectSeq(rows, LAMBDA r : r.kind = "data")

\* A new request is taken while the log has room.
Room == Len(DataRows(csv.rows)) < MaxRows

(***************************************************************************)
(* Time passes.                                                            *)
(***************************************************************************)
Tick ==
    /\ clock < MaxTime
    /\ clock' = clock + 1
    /\ UNCHANGED <<GROQ_API_KEY, RATE_BUCKET, csv, pc, loc, calls, completed>>

(***************************************************************************)
(* rate_limit_or_raise (src/app.py:90-98), one step per statement.         *)
(***************************************************************************)
\* InWindow without the pruning.
InWindowKeepAll(bucket, now) == bucket

\* InWindow with a window one second longer.
InWindowWider(bucket, now) ==
    SelectSeq(bucket, LAMBDA ts : ts >= now - RATE_LIMIT_WINDOW_SEC - 1)

\* The timestamps of bucket that are not older than the window at time now.
InWindow(bucket, now) ==
    SelectSeq(bucket, LAMBDA ts : ts >= now - RATE_LIMIT_WINDOW_SEC)

\* Full with the comparison off by one.
FullOffByOne(bucket) == Len(bucket) > RATE_LIMIT_MAX

\* Whether the pruned bucket leaves no room for another admission.
Full(bucket) == Len(bucket) >= RATE_LIMIT_MAX

\* Where control goes when rate_limit_or_raise returns.
AfterAdmission(handler) ==
    CASE handler = "home" -> "home_form"
      [] handler = "api" -> "an_check"
      [] OTHER -> "returned"

\* now = time.time(); window_start = now - RATE_LIMIT_WINDOW_SEC
RlNow(t) ==
    /\ pc[t] = "rl_now"
    /\ Goto(t, "rl_prune", [now |-> clock, pre |-> RATE_BUCKET[loc[t].key]])
    /\ UNCHANGED <<GROQ_API_KEY, clock, RATE_BUCKET, csv, calls, completed>>

\* bucket = _RATE_BUCKET.setdefault(key, []); bucket[:] = [ts ... >= window_start]
RlPrune(t) ==
    /\ pc[t] = "rl_prune"
    /\ RATE_BUCKET' = [RATE_BUCKET EXCEPT
                          ![loc[t].key] = InWindow(RATE_BUCKET[loc[t].key], loc[t].now)]
    /\ pc' = [pc EXCEPT ![t] = "rl_check"]
    /\ UNCHANGED <<GROQ_API_KEY, clock, csv, loc, calls, completed>>

\* if len(bucket) >= RATE_LIMIT_MAX: raise RuntimeError("Rate limit exceeded...")
RlCheck(t) ==
    /\ pc[t] = "rl_check"
    /\ IF Full(RATE_BUCKET[loc[t].key])
       THEN Goto(t, "raised", [exc |-> RateLimitExceeded, rl |-> "rejected",
                               post |-> RATE_BUCKET[loc[t].key],
                               seen |-> Len(RATE_BUCKET[loc[t].key])])
       ELSE Goto(t, "rl_append", [rl |-> NoVal, seen |-> Len(RATE_BUCKET[loc[t].key])])
    /\ UNCHANGED <<GROQ_API_KEY, clock, RATE_BUCKET, csv, calls, completed>>

\* RlAppend with one list of timestamps for all the clients.
RlAppendGlobal(t) ==
    /\ pc[t] = "rl_append"
    /\ RATE_BUCKET' = [k \in Keys |-> Append(RATE_BUCKET[k], loc[t].now)]
    /\ Goto(t, AfterAdmission(loc[t].handler),
            [rl |-> "admitted", post |-> RATE_BUCKET'[loc[t].key]])
    /\ UNCHANGED <<GROQ_API_KEY, clock, csv, calls, completed>>

\* bucket.append(now)
RlAppend(t) ==
    /\ pc[t] = "rl_append"
    /\ RATE_BUCKET' = [RATE_BUCKET EXCEPT
                          ![loc[t].key] = Append(RATE_BUCKET[loc[t].key], loc[t].now)]
    /\ Goto(t, AfterAdmission(loc[t].handler),
            [rl |-> "admitted", post |-> RATE_BUCKET'[loc[t].key]])
    /\ UNCHANGED <<GROQ_API_KEY, clock, csv, calls, completed>>

\* A direct call rate_limit_or_raise(key), as a test of the limiter makes it.
RateLimitCall(t) ==
    /\ pc[t] = "idle"
    /\ Len(calls) < MaxCalls
    /\ \E key \in Keys :
          Goto(t, "rl_now", [handler |-> "direct", phase |-> "rl", key |-> key])
    /\ UNCHANGED <<GROQ_API_KEY, clock, RATE_BUCKET, csv, calls, completed>>

\* The direct call has returned or raised: its outcome is noted.
RateLimitDone(t) ==
    /\ pc[t] \in {"returned", "raised"}
    /\ loc[t].handler = "direct"
    /\ calls' = Append(calls, [key |-> loc[t].key, now |-> loc[t].now,
                               ok |-> (pc[t] = "returned")])
    /\ pc' = [pc EXCEPT ![t] = "idle"]
    /\ loc' = [loc EXCEPT ![t] = InitLoc]
    /\ UNCHANGED <<GROQ_API_KEY, clock, RATE_BUCKET, csv, completed>>

(***************************************************************************)
(* The request handlers (src/app.py:103-148).                              *)
(***************************************************************************)
\* home(), POST: client_key = request.remote_addr or "anonymous"; the form's
\* text is read after the admission (line 122).
HomePost(t) ==
    /\ pc[t] = "idle"
    /\ Room
    /\ \E key \in Clients, text \in Transcripts :
          Goto(t, "rl_now", [handler |-> "home", phase |-> "rl", key |-> key,
                             transcript |-> text, csv0 |-> csv])
    /\ UNCHANGED <<GROQ_API_KEY, clock, RATE_BUCKET, csv, calls, completed>>

\* HomeForm without the strip().
HomeFormNoStrip(t) ==
    /\ pc[t] = "home_form"
    /\ Goto(t, "an_check", RlScratch)
    /\ UNCHANGED <<GROQ_API_KEY, clock, RATE_BUCKET, csv, calls, completed>>

\* transcript = (request.form.get("transcript") or "").strip()
HomeForm(t) ==
    /\ pc[t] = "home_form"
    /\ Goto(t, "an_check", RlScratch @@ [transcript |-> Strip(loc[t].transcript)])
    /\ UNCHANGED <<GROQ_API_KEY, clock, RATE_BUCKET, csv, calls, completed>>

\* api_analyze(): the body is parsed and stripped before the try block
\* (lines 140-141); a transcript that is no string has no strip().
ApiPost(t) ==
    /\ pc[t] = "idle"
    /\ Room
    /\ \E key \in Clients :
          \/ \E text \in Transcripts :
                Goto(t, "rl_now", [handler |-> "api", phase |-> "rl", key |-> key,
                                   transcript |-> Strip(text), csv0 |-> csv])
          \/ Goto(t, "raised", [handler |-> "api", phase |-> "parse", key |-> key,
                                exc |-> NotAString, csv0 |-> csv])
    /\ UNCHANGED <<GROQ_API_KEY, clock, RATE_BUCKET, csv, calls, completed>>

\* The try blocks: home() wraps the admission (109-120) and the analysis
\* (123-126), api_analyze() wraps both (142-148); neither wraps the parsing.
InTry(handler, phase) ==
    /\ handler \in {"home", "api"}
    /\ phase \in {"rl", "an"}

\* Catches narrowed to except RuntimeError.
CatchesRuntimeError(exc) == exc.type = "RuntimeError"

\* except Exception: every exception class the program raises derives from it.
Catches(exc) ==
    exc.type \in {"RuntimeError", "ValueError", "KeyError", "AttributeError"}

\* What the handler's response holds.
Response(kind, by, exc, result) ==
    [kind |-> kind, by |-> by, error |-> exc, result |-> result]

\* HandlerExcept giving the slot back when the analysis failed.
HandlerExceptRefunds(t) ==
    /\ pc[t] = "raised"
    /\ InTry(loc[t].handler, loc[t].phase)
    /\ Catches(loc[t].exc)
    /\ Goto(t, "done",
            [response |-> Response("error", loc[t].handler, loc[t].exc, NoResult)])
    /\ RATE_BUCKET' =
          IF loc[t].phase = "an"
          THEN [RATE_BUCKET EXCEPT ![loc[t].key] = SubSeq(@, 1, Len(@) - 1)]
          ELSE RATE_BUCKET
    /\ UNCHANGED <<GROQ_API_KEY, clock, csv, calls, completed>>

\* HandlerExcept going on to the analysis after a rejected admission.
HandlerExceptGoesOn(t) ==
    /\ pc[t] = "raised"
    /\ InTry(loc[t].handler, loc[t].phase)
    /\ Catches(loc[t].exc)
    /\ IF loc[t].phase = "rl"
       THEN Goto(t, "an_check", [exc |-> NoExc])
       ELSE Goto(t, "done",
                 [response |-> Response("error", loc[t].handler, loc[t].exc, NoResult)])
    /\ UNCHANGED <<GROQ_API_KEY, clock, RATE_BUCKET, csv, calls, completed>>

\* except Exception as ex: the handler answers with str(ex).
HandlerExcept(t) ==
    /\ pc[t] = "raised"
    /\ InTry(loc[t].handler, loc[t].phase)
    /\ Catches(loc[t].exc)
    /\ Goto(t, "done",
            [response |-> Response("error", loc[t].handler, loc[t].exc, NoResult)])
    /\ UNCHANGED <<GROQ_API_KEY, clock, RATE_BUCKET, csv, calls, completed>>

\* @app.errorhandler(Exception) (lines 495-499): what no handler caught.
HandleExceptions(t) ==
    /\ pc[t] = "raised"
    /\ loc[t].handler \in {"home", "api"}
    /\ ~(InTry(loc[t].handler, loc[t].phase) /\ Catches(loc[t].exc))
    /\ Goto(t, "done",
            [response |-> Response("error", "errorhandler", loc[t].exc, NoResult)])
    /\ UNCHANGED <<GROQ_API_KEY, clock, RATE_BUCKET, csv, calls, completed>>

\* The response is sent; the thread is free again.
Finish(t) ==
    /\ pc[t] = "done"
    /\ pc' = [pc EXCEPT ![t] = "idle"]
    /\ loc' = [loc EXCEPT ![t] = InitLoc]
    /\ UNCHANGED <<GROQ_API_KEY, clock, RATE_BUCKET, csv, calls, completed>>

(***************************************************************************)
(* analyze_transcript (src/app.py:359-408) and call_groq (44-69).          *)
(***************************************************************************)
\* summary_prompt.replace(f"{transcript}", redacted_for_model), and the same
\* for the sentiment prompt.
Prompt(prefix, transcript, redacted) ==
    Replace(prefix \o transcript, transcript, redacted)

\* SleepHalves growing by a fixed step instead of doubling.
SleepHalvesLinear(attempt) == attempt + 1

\* The backoff after failed attempt number attempt, in half seconds:
\* sleep_s = (2 ** attempt) * 0.5
SleepHalves(attempt) == 2 ^ attempt

\* Lines 360-377: the empty check, the size limit (the limited text takes the
\* place of transcript), the redaction, the summary prompt.
AnCheck(t) ==
    /\ pc[t] = "an_check"
    /\ IF loc[t].transcript = <<>>
       THEN Goto(t, "raised", RlScratch @@ [phase |-> "an", exc |-> EmptyInput])
       ELSE LET limited == within_size_limit(loc[t].transcript)
                redacted == redact_pii(limited)
            IN  Goto(t, "groq_key",
                     RlScratch @@
                     [phase |-> "an",
                      received |-> loc[t].transcript,
                      original_length |-> Len(loc[t].transcript),
                      transcript |-> limited,
                      was_truncated |-> (Len(loc[t].transcript) # Len(limited)),
                      redacted |-> redacted,
                      call |-> 1,
                      prompt |-> Prompt(SUMMARY_PREFIX, limited, redacted)])
    /\ UNCHANGED <<GROQ_API_KEY, clock, RATE_BUCKET, csv, calls, completed>>

\* GroqKey without the check of the key.
GroqKeyUnchecked(t) ==
    /\ pc[t] = "groq_key"
    /\ Goto(t, "groq_post", GroqLocals)
    /\ UNCHANGED <<GROQ_API_KEY, clock, RATE_BUCKET, csv, calls, completed>>

\* call_groq, lines 45-59: if not GROQ_API_KEY: raise RuntimeError(...)
GroqKey(t) ==
    /\ pc[t] = "groq_key"
    /\ IF ~GROQ_API_KEY
       THEN Goto(t, "raised", GroqLocals @@ [exc |-> MissingCredential])
       ELSE Goto(t, "groq_post", GroqLocals)
    /\ UNCHANGED <<GROQ_API_KEY, clock, RATE_BUCKET, csv, calls, completed>>

\* The prompts posted so far, with the one of this attempt.
Posted(t) == loc[t].posted \cup {[call |-> loc[t].call, prompt |-> loc[t].prompt]}

\* GroqReturn going on to the log after the first call already.
GroqReturnToLog(t, reply) ==
    Goto(t, "csv_stat",
         [summary |-> Strip(reply), reply |-> reply, groq |-> "returned",
          posted |-> Posted(t), tries |-> loc[t].tries + 1])

\* What call_groq's return value is assigned to, and what follows: the
\* sentiment prompt and call (lines 380-385), or the log (line 394).
GroqReturn(t, reply) ==
    IF loc[t].call = 1
    THEN Goto(t, "groq_key",
              [summary |-> Strip(reply), reply |-> reply, groq |-> "returned",
               posted |-> Posted(t),
               tries |-> loc[t].tries + 1,
               call |-> 2,
               prompt |-> Prompt(SENTIMENT_PREFIX, loc[t].transcript, loc[t].redacted)])
    ELSE Goto(t, "csv_stat",
              [sentiment |-> Strip(reply), reply |-> reply, groq |-> "returned",
               posted |-> Posted(t),
               tries |-> loc[t].tries + 1])

\* except requests.exceptions.RequestException as req_err: last_err = req_err
GroqCaught(t, kind) ==
    Goto(t, "groq_sleep",
         [last_err |-> [kind |-> kind, attempt |-> loc[t].attempt],
          posted |-> Posted(t),
          tries |-> loc[t].tries + 1])

\* GroqRaised with an except clause that catches every exception.
GroqRaisedCaught(t, exc) == GroqCaught(t, exc.type)

\* An exception of the attempt that line 65 does not catch leaves call_groq.
GroqRaised(t, exc) ==
    Goto(t, "raised",
         [exc |-> exc, groq |-> "raised", posted |-> Posted(t),
          tries |-> loc[t].tries + 1])

\* One pass of the loop body's try (lines 61-66): the request is posted; it
\* answers with content, fails with a RequestException, or answers 2xx with a
\* body that is no JSON or has no choices[0].message.content.
GroqPost(t) ==
    /\ pc[t] = "groq_post"
    /\ \/ \E reply \in Replies(loc[t].call) : GroqReturn(t, reply)
       \/ \E kind \in NetErrors : GroqCaught(t, kind)
       \/ \E kind \in JSONErrors :
             \/ GroqCaught(t, kind)
             \/ GroqRaised(t, NotJSON)
       \/ GroqRaised(t, MalformedResponse)
    /\ UNCHANGED <<GROQ_API_KEY, clock, RATE_BUCKET, csv, calls, completed>>

\* GroqSleep with a loop that makes one attempt more.
GroqSleepOneMore(t) ==
    /\ pc[t] = "groq_sleep"
    /\ Goto(t, IF loc[t].attempt + 1 <= MAX_ATTEMPTS THEN "groq_post" ELSE "groq_fail",
            [slept |-> loc[t].slept + SleepHalves(loc[t].attempt),
             attempt |-> loc[t].attempt + 1])
    /\ UNCHANGED <<GROQ_API_KEY, clock, RATE_BUCKET, csv, calls, completed>>

\* Lines 67-68 and the loop's next turn: the sleep, then the next attempt or,
\* after the last one, the statement after the loop.
GroqSleep(t) ==
    /\ pc[t] = "groq_sleep"
    /\ Goto(t, IF loc[t].attempt + 1 < MAX_ATTEMPTS THEN "groq_post" ELSE "groq_fail",
            [slept |-> loc[t].slept + SleepHalves(loc[t].attempt),
             attempt |-> loc[t].attempt + 1])
    /\ UNCHANGED <<GROQ_API_KEY, clock, RATE_BUCKET, csv, calls, completed>>

\* GroqFail leaving a row for the failed call in the log before it raises.
GroqFailLogged(t) ==
    /\ pc[t] = "groq_fail"
    /\ Goto(t, "raised", [exc |-> RetriesExhausted(loc[t].last_err), groq |-> "raised"])
    /\ csv' = [exists |-> TRUE,
               rows |-> Append(csv.rows,
                               DataRow(loc[t].transcript, loc[t].summary, <<>>, clock))]
    /\ UNCHANGED <<GROQ_API_KEY, clock, RATE_BUCKET, calls, completed>>

\* Line 69: raise RuntimeError(f"Groq API request failed after retries: {last_err}")
GroqFail(t) ==
    /\ pc[t] = "groq_fail"
    /\ Goto(t, "raised", [exc |-> RetriesExhausted(loc[t].last_err), groq |-> "raised"])
    /\ UNCHANGED <<GROQ_API_KEY, clock, RATE_BUCKET, csv, calls, completed>>

\* Lines 394-395: file_exists = os.path.isfile(CSV_PATH); timestamp = utcnow()
CsvStat(t) ==
    /\ pc[t] = "csv_stat"
    /\ Goto(t, "csv_write",
            GroqLocals @@ [file_exists |-> csv.exists, timestamp |-> clock])
    /\ UNCHANGED <<GROQ_API_KEY, clock, RATE_BUCKET, csv, calls, completed>>

\* The rows one append writes: the header when the file did not exist, then
\* the row (lines 399-401).
Appended(file_exists, row) ==
    IF file_exists THEN <<row>> ELSE <<HeaderRow, row>>

\* Lines 397-401: the file is opened for appending and the rows are written.
CsvWrite(t) ==
    /\ pc[t] = "csv_write"
    /\ csv' = [exists |-> TRUE,
               rows |-> csv.rows \o
                        Appended(loc[t].file_exists,
                                 DataRow(loc[t].transcript, loc[t].summary,
                                         loc[t].sentiment, loc[t].timestamp))]
    /\ pc' = [pc EXCEPT ![t] = "an_return"]
    /\ UNCHANGED <<GROQ_API_KEY, clock, RATE_BUCKET, loc, calls, completed>>

\* The dict analyze_transcript returns (lines 403-408).
Result(transcript, was_truncated, summary, sentiment, timestamp) ==
    [transcript |-> transcript \o (IF was_truncated THEN TRUNCATED ELSE <<>>),
     summary |-> summary,
     sentiment |-> sentiment,
     timestamp |-> timestamp]

\* analyze_transcript returns and the handler answers with the result.
AnReturn(t) ==
    /\ pc[t] = "an_return"
    /\ LET result == Result(loc[t].transcript, loc[t].was_truncated, loc[t].summary,
                            loc[t].sentiment, loc[t].timestamp)
       IN  /\ Goto(t, "done",
                   [response |-> Response("success", loc[t].handler, NoExc, result)])
           /\ completed' = Append(completed, result)
    /\ UNCHANGED <<GROQ_API_KEY, clock, RATE_BUCKET, csv, calls>>

(***************************************************************************)
(* The specification: requests are handled one at a time.                  *)
(***************************************************************************)
RateLimitStep(t) == RlNow(t) \/ RlPrune(t) \/ RlCheck(t) \/ RlAppend(t)

Step(t) ==
    \/ RateLimitStep(t)
    \/ HomeForm(t) \/ HandlerExcept(t) \/ HandleExceptions(t) \/ Finish(t)
    \/ AnCheck(t) \/ GroqKey(t) \/ GroqPost(t) \/ GroqSleep(t) \/ GroqFail(t)
    \/ CsvStat(t) \/ CsvWrite(t) \/ AnReturn(t)

Next ==
    \/ Tick
    \/ \E t \in Workers : HomePost(t) \/ ApiPost(t)
    \/ \E t \in Workers : Step(t)

Spec == Init /\ [][Next]_vars

(***************************************************************************)
(* The handling of long transcripts: requests to /api/analyze that arrive  *)
(* within one second, one at a time.                                       *)
(***************************************************************************)
TextPost(t) ==
    /\ pc[t] = "idle"
    /\ Room
    /\ \E key \in Clients, text \in TextTranscripts :
          Goto(t, "rl_now", [handler |-> "api", phase |-> "rl", key |-> key,
                             transcript |-> Strip(text), csv0 |-> csv])
    /\ UNCHANGED <<GROQ_API_KEY, clock, RATE_BUCKET, csv, calls, completed>>

StepText(t) ==
    \/ RateLimitStep(t)
    \/ HandlerExcept(t)
    \/ Finish(t)
    \/ AnCheck(t)
    \/ GroqKey(t)
    \/ GroqPost(t)
    \/ GroqSleep(t)
    \/ GroqFail(t)
    \/ CsvStat(t)
    \/ CsvWrite(t)
    \/ AnReturn(t)

NextText ==
    \/ \E t \in Workers : TextPost(t)
    \/ \E t \in Workers : StepText(t)

SpecText == Init /\ [][NextText]_vars

(***************************************************************************)
(* Request threads side by side: the server handles each request in a      *)
(* thread of its own, and nothing serializes analyze_transcript.           *)
(***************************************************************************)
\* The transcript of the concurrent requests.
LogTranscripts == { <<"a">> }

\* A request that arrives while the log does not exist yet.
LogPost(t) ==
    /\ pc[t] = "idle"
    /\ ~csv.exists
    /\ \E key \in Clients, text \in LogTranscripts :
          Goto(t, "rl_now", [handler |-> "api", phase |-> "rl", key |-> key,
                             transcript |-> Strip(text), csv0 |-> csv])
    /\ UNCHANGED <<GROQ_API_KEY, clock, RATE_BUCKET, csv, calls, completed>>

NextLog ==
    \/ \E t \in Threads : LogPost(t)
    \/ \E t \in Threads : StepText(t)

SpecLog == Init /\ [][NextLog]_vars

(***************************************************************************)
(* The rate limiter called by two threads at once for one client.          *)
(***************************************************************************)
RaceCall(t) ==
    /\ pc[t] = "idle"
    /\ \E key \in Clients :
          Goto(t, "rl_now", [handler |-> "direct", phase |-> "rl", key |-> key])
    /\ UNCHANGED <<GROQ_API_KEY, clock, RATE_BUCKET, csv, calls, completed>>

\* The call has returned or raised; the thread is free for the next one.
RaceDone(t) ==
    /\ pc[t] \in {"returned", "raised"}
    /\ loc[t].handler = "direct"
    /\ pc' = [pc EXCEPT ![t] = "idle"]
    /\ loc' = [loc EXCEPT ![t] = InitLoc]
    /\ UNCHANGED <<GROQ_API_KEY, clock, RATE_BUCKET, csv, calls, completed>>

NextRace ==
    \/ Tick
    \/ \E t \in Threads : RaceCall(t)
    \/ \E t \in Threads : RateLimitStep(t) \/ RaceDone(t)

SpecRace == Init /\ [][NextRace]_vars

(***************************************************************************)
(* One request thread that keeps going: requests.post returns or raises    *)
(* within its timeout of 30 s, time.sleep returns, and no other step of    *)
(* the handler waits for anything.                                         *)
(***************************************************************************)
NextCall ==
    \/ \E t \in Workers : LogPost(t)
    \/ \E t \in Workers : StepText(t)

SpecCall == Init /\ [][NextCall]_vars /\ WF_vars(\E t \in Workers : StepText(t))

(***************************************************************************)
(* The rate limiter alone: direct calls, one at a time.                    *)
(***************************************************************************)
NextRate ==
    \/ Tick
    \/ \E t \in Workers : RateLimitCall(t)
    \/ \E t \in Workers : RateLimitStep(t) \/ RateLimitDone(t)

SpecRate == Init /\ [][NextRate]_vars

(***************************************************************************)
(* The claims.                                                             *)
(***************************************************************************)
\* The direct calls made for key, in order.
CallsFor(key) == SelectSeq(calls, LAMBDA c : c.key = key)

\* The first RATE_LIMIT_MAX calls for a key are admitted.
FirstCallsAdmitted(cs) ==
    \A i \in 1..Len(cs) : i <= RATE_LIMIT_MAX => cs[i].ok

\* Every admission before call j is older than j's time by at least gap.
AdmissionsOlder(cs, j, gap) ==
    \A i \in 1..(j - 1) : cs[i].ok => cs[j].now - cs[i].now >= gap

\* C1 as amended: from an empty bucket the first M calls for a key are
\* admitted; call M+1 fails when no more than W seconds have passed since the
\* first admission; a call succeeds when MORE than W seconds have passed since
\* every earlier admission for the key.
C1_AdmitRejectReadmit ==
    \A key \in Keys :
        LET cs == CallsFor(key)
        IN  /\ FirstCallsAdmitted(cs)
            /\ (/\ Len(cs) > RATE_LIMIT_MAX
                /\ cs[RATE_LIMIT_MAX + 1].now - cs[1].now <= RATE_LIMIT_WINDOW_SEC)
               => ~cs[RATE_LIMIT_MAX + 1].ok
            /\ \A j \in 1..Len(cs) :
                  AdmissionsOlder(cs, j, RATE_LIMIT_WINDOW_SEC + 1) => cs[j].ok

\* C1's case: M admissions, a rejection inside the window, and an admission
\* once the window has passed.
C1_Witness ==
    \E key \in Keys :
        LET cs == CallsFor(key)
        IN  /\ Len(cs) >= RATE_LIMIT_MAX + 2
            /\ ~cs[RATE_LIMIT_MAX + 1].ok
            /\ cs[RATE_LIMIT_MAX + 2].ok
            /\ cs[RATE_LIMIT_MAX + 2].now - cs[RATE_LIMIT_MAX].now
                  > RATE_LIMIT_WINDOW_SEC

\* C1 as stated: ... and a call made once W seconds have passed since those
\* admissions succeeds.
C1_AsStated ==
    \A key \in Keys :
        LET cs == CallsFor(key)
        IN  /\ FirstCallsAdmitted(cs)
            /\ (/\ Len(cs) > RATE_LIMIT_MAX
                /\ cs[RATE_LIMIT_MAX + 1].now - cs[1].now < RATE_LIMIT_WINDOW_SEC)
               => ~cs[RATE_LIMIT_MAX + 1].ok
            /\ \A j \in 1..Len(cs) :
                  AdmissionsOlder(cs, j, RATE_LIMIT_WINDOW_SEC) => cs[j].ok

\* The entries of a bucket that have not expired at time now.
Unexpired(bucket, now) ==
    SelectSeq(bucket, LAMBDA ts : ~(ts < now - RATE_LIMIT_WINDOW_SEC))

\* C2: a call that fails found at least RATE_LIMIT_MAX unexpired timestamps
\* and leaves the bucket as it was, less the expired ones; a call that
\* succeeds leaves that bucket with one more entry, the call's now.
C2_FailRecordsNothing ==
    \A t \in Threads :
        LET l == loc[t]
            kept == Unexpired(l.pre, l.now)
        IN  /\ l.rl = "rejected" =>
                  /\ Len(kept) >= RATE_LIMIT_MAX
                  /\ l.post = kept
                  /\ RATE_BUCKET[l.key] = kept
            /\ l.rl = "admitted" =>
                  /\ Len(kept) < RATE_LIMIT_MAX
                  /\ l.post = Append(kept, l.now)
                  /\ RATE_BUCKET[l.key] = Append(kept, l.now)

\* C2's case: a call has just failed on a full bucket, and the bucket holds
\* what it held.
C2_Witness ==
    \E t \in Threads :
        /\ pc[t] = "raised"
        /\ loc[t].rl = "rejected"
        /\ Len(loc[t].pre) = RATE_LIMIT_MAX
        /\ RATE_BUCKET[loc[t].key] = loc[t].pre

\* What the call of call_groq that has just returned in thread t returned.
Returned(t) == IF pc[t] = "groq_key" THEN loc[t].summary ELSE loc[t].sentiment

\* C3: a call of call_groq that succeeds after 3 failed attempts returns the
\* successful response's content (trimmed) and has slept 0.5 + 1 + 2 seconds,
\* 7 half seconds; a call whose 4 attempts all fail raises an error that
\* carries the error of the 4th attempt.
C3_ThreeFailuresThenSuccess ==
    \A t \in Threads :
        LET l == loc[t]
        IN  /\ (l.groq = "returned" /\ l.attempt = 3) =>
                  /\ l.slept = 7
                  /\ Returned(t) = Strip(l.reply)
            /\ pc[t] = "groq_fail" =>
                  /\ l.attempt = 4
                  /\ l.last_err.attempt = 3
            /\ (l.groq = "raised" /\ l.attempt = 4) =>
                  /\ l.exc.type = "RuntimeError"
                  /\ l.exc.cause = l.last_err
                  /\ l.exc.cause.attempt = 3
                  /\ l.exc.cause.kind \in RequestExceptions

\* C3's case: the fourth attempt of a call has succeeded.
C3_Witness ==
    \E t \in Threads :
        /\ loc[t].groq = "returned"
        /\ loc[t].attempt = 3
        /\ loc[t].last_err.attempt = 2
        /\ Returned(t) # <<>>

\* Thread t handles a request whose transcript is empty or blank.
BlankRequest(t) ==
    /\ loc[t].handler \in {"home", "api"}
    /\ loc[t].phase \in {"rl", "an"}
    /\ \A i \in 1..Len(loc[t].transcript) : loc[t].transcript[i] = " "

\* Thread t has made no outbound call and has written nothing to the log.
NothingSentOrLogged(t) ==
    /\ loc[t].posted = {}
    /\ pc[t] \notin {"groq_key", "groq_post", "groq_sleep", "groq_fail",
                     "csv_stat", "csv_write", "an_return"}
    /\ csv = loc[t].csv0

\* C4 as amended: a request with an empty or blank transcript that the rate
\* limiter admits fails with the empty-input error (one it rejects fails with
\* the rate-limit error), and in both cases no outbound call is made and
\* nothing is written to the log.
C4_BlankFailsFirst ==
    \A t \in Threads :
        BlankRequest(t) =>
            /\ NothingSentOrLogged(t)
            /\ pc[t] = "done" =>
                  /\ loc[t].response.kind = "error"
                  /\ loc[t].response.error =
                        IF loc[t].phase = "an" THEN EmptyInput ELSE RateLimitExceeded

\* C4's case: a blank request has failed with the empty-input error while the
\* log holds a row.
C4_Witness ==
    \E t \in Threads :
        /\ BlankRequest(t)
        /\ pc[t] = "done"
        /\ loc[t].response.error = EmptyInput
        /\ Len(csv.rows) > 1

\* C4 as stated: every request with an empty or blank transcript fails with
\* the empty-input error.
C4_AsStated ==
    \A t \in Threads :
        BlankRequest(t) =>
            /\ NothingSentOrLogged(t)
            /\ pc[t] = "done" =>
                  /\ loc[t].response.kind = "error"
                  /\ loc[t].response.error = EmptyInput

\* C5: while and after analyze_transcript fails (at the empty check or in
\* either call of call_groq) the log is what it was when the request came in.
C5_FailureLeavesLog ==
    \A t \in Threads :
        (/\ loc[t].phase = "an"
         /\ loc[t].exc # NoExc) => csv = loc[t].csv0

\* C5's case: the summary came back, the sentiment call failed, and the log
\* file still does not exist.
C5_Witness ==
    \E t \in Threads :
        /\ pc[t] = "done"
        /\ loc[t].call = 2
        /\ loc[t].summary # <<>>
        /\ loc[t].response.kind = "error"
        /\ ~csv.exists
        /\ csv.rows = <<>>

\* Row r holds what result x holds (x's transcript may end with the marker).
RowOf(r, x) ==
    /\ r.kind = "data"
    /\ x.transcript \in {r.transcript, r.transcript \o <<"\n", "[TRUNCATED]">>}
    /\ r.summary = x.summary
    /\ r.sentiment = x.sentiment
    /\ r.timestamp = x.timestamp

\* Some thread has appended its row and has not returned yet.
Returning == \E t \in Threads : pc[t] = "an_return"

\* The data rows of the log are the results returned so far, in order (with
\* one more row while an analysis is between its append and its return).
RowsAreCompletions ==
    LET rows == SelectSeq(csv.rows, LAMBDA r : r.kind # "header")
    IN  /\ Len(rows) = Len(completed) + (IF Returning THEN 1 ELSE 0)
        /\ \A i \in 1..Len(completed) : RowOf(rows[i], completed[i])

\* The log only grows at its end.
AppendOnly ==
    /\ Len(csv'.rows) >= Len(csv.rows)
    /\ SubSeq(csv'.rows, 1, Len(csv.rows)) = csv.rows

\* C6: the data rows of the log are, one to one and in order, the analyses
\* that completed, each row holding that analysis's transcript, summary,
\* sentiment and timestamp; no step changes or removes a row.
C6_RowsMatchCompletions == [](RowsAreCompletions) /\ [][AppendOnly]_vars

\* C6's case: two analyses have completed with different results.
C6_Witness ==
    /\ Len(completed) = 2
    /\ completed[1] # completed[2]
    /\ completed[1].summary # completed[1].sentiment
    /\ \A t \in Threads : pc[t] = "idle"

\* C9: without an API key no request is posted, no backoff sleep happens,
\* call_groq raises the missing-credential error and the log stays as it was.
C9_NoKeyNoCall ==
    ~GROQ_API_KEY =>
        \A t \in Threads :
            /\ loc[t].posted = {}
            /\ loc[t].slept = 0
            /\ pc[t] \notin {"groq_post", "groq_sleep", "groq_fail",
                             "csv_stat", "csv_write", "an_return"}
            /\ csv = loc[t].csv0
            /\ completed = <<>>
            /\ (pc[t] = "done" /\ loc[t].call > 0) =>
                  loc[t].response.error.msg = "Missing GROQ_API_KEY."

\* C9's case: an analysis of a transcript has failed for want of a key.
C9_Witness ==
    \E t \in Threads :
        /\ ~GROQ_API_KEY
        /\ pc[t] = "done"
        /\ loc[t].transcript # <<>>
        /\ loc[t].response.error.msg = "Missing GROQ_API_KEY."

\* The failures of C10.
HandlingFailures ==
    {"Rate limit exceeded. Please try again later.", "Transcript cannot be empty.",
     "Missing GROQ_API_KEY.", "Groq API request failed after retries", "choices"}

\* C10: each of the five failures is caught by the handler of its request,
\* which answers with an error result that carries it; a request ends with a
\* success result or with an error result, never both.
C10_FailuresCaught ==
    \A t \in Threads :
        LET l == loc[t]
        IN  /\ (pc[t] = "raised" /\ l.exc.msg \in HandlingFailures) =>
                  l.handler = "direct" \/ ENABLED HandlerExcept(t)
            /\ pc[t] = "done" =>
                  /\ l.response.kind \in {"success", "error"}
                  /\ l.response.kind = "success" <=> l.exc = NoExc
                  /\ l.response.kind = "success" <=> l.response.result # NoResult
                  /\ l.response.kind = "error" => l.response.error = l.exc
                  /\ l.exc.msg \in HandlingFailures => l.response.by = l.handler

\* C10's case: the handler of the form has caught the KeyError of a malformed
\* response and answered with an error result.
C10_Witness ==
    \E t \in Threads :
        /\ pc[t] = "done"
        /\ loc[t].handler = "home"
        /\ loc[t].exc.type = "KeyError"
        /\ loc[t].response.kind = "error"
        /\ loc[t].response.by = "home"

\* The last row of the log.
LastRow == csv.rows[Len(csv.rows)]

\* Thread t's analysis has appended its row and returned its result.
Succeeded(t) == pc[t] = "done" /\ loc[t].response.kind = "success"

\* C7 as stated: when the transcript an analysis receives holds an address,
\* every prompt it posts contains the redacted copy of the size-limited
\* transcript, which holds the token and no address, and does not contain
\* the size-limited transcript itself; the row and the result of the analysis
\* hold the size-limited transcript as it was.
C7_AsStated ==
    \A t \in Threads :
        LET l == loc[t]
        IN  (l.call >= 1 /\ HasPII(l.received)) =>
                /\ Contains(l.redacted, <<REDACTED_EMAIL>>)
                /\ ~HasPII(l.redacted)
                /\ \A p \in l.posted :
                      /\ Contains(p.prompt, l.redacted)
                      /\ ~Contains(p.prompt, l.transcript)
                /\ Succeeded(t) =>
                      /\ LastRow.transcript = l.transcript
                      /\ OccursAt(l.response.result.transcript, l.transcript, 1)

\* C7 for the analyses whose size-limited transcript still holds an address:
\* the redacted copy holds the token and no address, every prompt posted
\* contains it and not the size-limited transcript, and the row and the
\* result hold the size-limited transcript as it was.
C7_LimitedHoldsAddress ==
    \A t \in Threads :
        LET l == loc[t]
        IN  (l.call >= 1 /\ HasPII(l.transcript)) =>
                /\ Contains(l.redacted, <<REDACTED_EMAIL>>)
                /\ ~HasPII(l.redacted)
                /\ \A p \in l.posted :
                      /\ Contains(p.prompt, l.redacted)
                      /\ ~Contains(p.prompt, l.transcript)
                /\ Succeeded(t) =>
                      /\ LastRow.transcript = l.transcript
                      /\ OccursAt(l.response.result.transcript, l.transcript, 1)

\* C8: a transcript of at most MAX_TRANSCRIPT_CHARS characters passes the
\* size limit unchanged and comes back in the result without the marker; of a
\* longer one the first MAX_TRANSCRIPT_CHARS characters are kept, the result
\* holds them followed by the marker and the row holds them without it.
C8_SizeLimit ==
    \A t \in Threads :
        LET l == loc[t]
            n == IF Len(l.received) <= MAX_TRANSCRIPT_CHARS
                 THEN Len(l.received) ELSE MAX_TRANSCRIPT_CHARS
            marker == IF Len(l.received) <= MAX_TRANSCRIPT_CHARS
                      THEN <<>> ELSE <<"\n", "[TRUNCATED]">>
        IN  l.call >= 1 =>
                /\ Len(l.transcript) = n
                /\ \A i \in 1..n : l.transcript[i] = l.received[i]
                /\ Succeeded(t) =>
                      /\ l.response.result.transcript = l.transcript \o marker
                      /\ LastRow.kind = "data"
                      /\ LastRow.transcript = l.transcript

\* C8's case: the analysis of a transcript over the ceiling that differs from
\* its own end has succeeded.
C8_Witness ==
    \E t \in Threads :
        /\ Succeeded(t)
        /\ Len(loc[t].received) > MAX_TRANSCRIPT_CHARS
        /\ loc[t].received[1] # loc[t].received[2]
        /\ Len(loc[t].response.result.transcript) = MAX_TRANSCRIPT_CHARS + 2

\* The header rows of the log.
Headers == SelectSeq(csv.rows, LAMBDA r : r.kind = "header")

\* C11 as stated: whenever the log holds anything, also after analyses that
\* ran side by side on a log that did not exist, it holds exactly one header
\* row, and that row is the first.
C11_AsStated ==
    /\ csv.exists <=> csv.rows # <<>>
    /\ csv.rows # <<>> =>
          /\ csv.rows[1] = HeaderRow
          /\ Len(Headers) = 1

\* C12 as stated: call_groq has not slept when it makes its first attempt,
\* sleeps only when another attempt follows, and has slept 0.5 + 1 + 2
\* seconds, 7 half seconds, when it raises after 4 failed attempts.
C12_AsStated ==
    \A t \in Threads :
        LET l == loc[t]
        IN  /\ (pc[t] = "groq_post" /\ l.tries = 0) => l.slept = 0
            /\ pc[t] = "groq_sleep" => l.tries < MAX_ATTEMPTS
            /\ (l.groq = "raised" /\ l.tries = MAX_ATTEMPTS /\ l.exc.type = "RuntimeError")
                  => l.slept = 7

\* Thread t is inside the retry loop of call_groq.
InLoop(t) == pc[t] \in {"groq_post", "groq_sleep", "groq_fail"}

\* The attempts of the call of call_groq that thread t is in or has just
\* left: every failed one took one attempt of the budget, none followed a
\* successful one, and the fourth failure ends the call.
AttemptsInBudget ==
    \A t \in Threads :
        LET l == loc[t]
        IN  /\ l.tries \in 0..MAX_ATTEMPTS
            /\ l.call \in 0..2
            /\ pc[t] = "groq_post" => (l.tries = l.attempt /\ l.tries < MAX_ATTEMPTS)
            /\ pc[t] = "groq_sleep" => l.tries = l.attempt + 1
            /\ pc[t] = "groq_fail" => l.tries = MAX_ATTEMPTS
            /\ l.groq = "returned" =>
                  (~InLoop(t) /\ l.tries = l.attempt + 1 /\ l.tries >= 1)
            /\ l.groq = "raised" => (~InLoop(t) /\ l.tries >= 1)
            /\ l.call >= 1 => (l.call - 1) * MAX_ATTEMPTS + l.tries <= 8

\* C13: with a key, a call of call_groq makes at least 1 and at most 4
\* attempts, each failure caught taking one, none after a success, the 4th
\* failure ending it, so that an analysis of two calls makes at most 8; and
\* every call that has entered the loop leaves it.
C13_AttemptBudget ==
    /\ []AttemptsInBudget
    /\ \A t \in Workers : InLoop(t) ~> ~InLoop(t)

\* C13's case: the second call of an analysis has succeeded on its fourth
\* attempt.
C13_Witness ==
    \E t \in Threads :
        /\ loc[t].call = 2
        /\ loc[t].groq = "returned"
        /\ loc[t].tries = MAX_ATTEMPTS

\* The timestamps of bucket lie within one window.
OneWindow(bucket) ==
    \A i, j \in 1..Len(bucket) : bucket[i] - bucket[j] <= RATE_LIMIT_WINDOW_SEC

\* C14: with the prune, the check and the append as separate steps of
\* several threads, every admitted call saw a free slot at its check, and
\* yet a bucket can hold more than RATE_LIMIT_MAX timestamps, one more for
\* each further thread.
C14_CheckThenAppendRace ==
    /\ \A t \in Threads :
          /\ pc[t] = "rl_append" => loc[t].seen < RATE_LIMIT_MAX
          /\ loc[t].rl = "admitted" => loc[t].seen < RATE_LIMIT_MAX
    /\ \A k \in Keys : Len(RATE_BUCKET[k]) <= RATE_LIMIT_MAX + Cardinality(Threads) - 1

\* C14's case: two calls for one client both saw the last free slot and both
\* were admitted; the client's bucket holds more than RATE_LIMIT_MAX
\* timestamps of one window.
C14_Witness ==
    \E t1, t2 \in Threads :
        /\ t1 # t2
        /\ pc[t1] = "returned" /\ pc[t2] = "returned"
        /\ loc[t1].key = loc[t2].key
        /\ loc[t1].seen = RATE_LIMIT_MAX - 1
        /\ loc[t2].seen = RATE_LIMIT_MAX - 1
        /\ Len(RATE_BUCKET[loc[t1].key]) > RATE_LIMIT_MAX
        /\ OneWindow(RATE_BUCKET[loc[t1].key])

\* The calls of call_groq for which thread t has posted a prompt.
CallsPosted(t) == {p.call : p \in loc[t].posted}

\* C15: the sentiment call is started only after the summary call has
\* returned, never after it failed; the row is appended only after both
\* calls have returned, and it is in the log when the result is returned.
C15_StepOrder ==
    \A t \in Threads :
        LET l == loc[t]
        IN  /\ l.call = 2 =>
                  /\ 1 \in CallsPosted(t)
                  /\ \E r \in Replies(1) : l.summary = Strip(r)
            /\ 2 \in CallsPosted(t) => l.call = 2
            /\ (l.call = 1 /\ l.exc # NoExc) => 2 \notin CallsPosted(t)
            /\ (l.call >= 1 /\ pc[t] \notin {"an_return", "done"}) => csv = l.csv0
            /\ (l.call >= 1 /\ csv # l.csv0) =>
                  /\ CallsPosted(t) = {1, 2}
                  /\ l.exc = NoExc
                  /\ \E r \in Replies(2) : l.sentiment = Strip(r)
                  /\ pc[t] = "done" => l.response.kind = "success"
            /\ (pc[t] = "done" /\ l.response.kind = "success") =>
                  /\ csv # l.csv0
                  /\ Len(csv.rows) > Len(l.csv0.rows)

\* C15's case: both calls have returned and the row is in the log, the
\* result not yet returned.
C15_Witness ==
    \E t \in Threads :
        /\ pc[t] = "an_return"
        /\ CallsPosted(t) = {1, 2}
        /\ csv # loc[t].csv0
        /\ loc[t].response = NoResponse

\* C16: a request the rate limiter rejected has posted nothing and has left
\* the log as it was, and ends with the rate-limit error; the analysis of a
\* request begins only after its admission.
C16_RejectedDoesNothing ==
    \A t \in Threads :
        LET l == loc[t]
        IN  l.handler \in {"home", "api"} =>
                /\ l.rl = "rejected" =>
                      /\ pc[t] \in {"raised", "done"}
                      /\ l.exc = RateLimitExceeded
                      /\ l.phase = "rl"
                      /\ l.call = 0
                      /\ l.posted = {}
                      /\ csv = l.csv0
                      /\ pc[t] = "done" =>
                            /\ l.response.kind = "error"
                            /\ l.response.error = RateLimitExceeded
                /\ (l.phase = "an" \/ l.call >= 1 \/ pc[t] \in {"home_form", "an_check"}) =>
                      l.rl = "admitted"

\* C16's case: a request of the form with a transcript that holds text was
\* rejected while the log holds rows.
C16_Witness ==
    \E t \in Threads :
        /\ pc[t] = "done"
        /\ loc[t].handler = "home"
        /\ loc[t].rl = "rejected"
        /\ Strip(loc[t].transcript) # <<>>
        /\ Len(csv.rows) > 1

\* The call of thread t ended with exc at once: the attempt that raised it
\* was the last one made, and nothing was slept after it.
RaisedAtOnce(t, exc) ==
    loc[t].exc = exc =>
        /\ pc[t] \in {"raised", "done"}
        /\ loc[t].groq = "raised"
        /\ loc[t].tries = loc[t].attempt + 1
        /\ loc[t].slept = 2 ^ loc[t].attempt - 1
        /\ pc[t] = "done" => loc[t].response.error = exc

\* C17 as amended: a 2xx response whose body is JSON without
\* choices[0].message.content ends call_groq at once with that error, no
\* retry and no sleep following; only a RequestException is retried, and the
\* error of a body that is no JSON is one wherever the requests library
\* makes it one.
C17_MalformedNotRetried ==
    \A t \in Threads :
        /\ RaisedAtOnce(t, MalformedResponse)
        /\ RaisedAtOnce(t, NotJSON)
        /\ pc[t] = "groq_sleep" => loc[t].last_err.kind \in RequestExceptions

\* C17's case: the second attempt of a call got a JSON body without choices.
C17_Witness ==
    \E t \in Threads :
        /\ pc[t] = "done"
        /\ loc[t].exc = MalformedResponse
        /\ loc[t].tries = 2
        /\ loc[t].slept = 1

\* C17 as stated: no 2xx response whose body lacks
\* choices[0].message.content is retried or slept after.
C17_AsStated ==
    \A t \in Threads :
        /\ RaisedAtOnce(t, MalformedResponse)
        /\ RaisedAtOnce(t, NotJSON)
        /\ pc[t] = "groq_sleep" => loc[t].last_err.kind \in NetErrors

\* The time of the last call for key that has pruned the bucket: the call in
\* progress, or else the last one on record; -1 when there was none.
LastCallTime(key) ==
    LET running == {t \in Threads : /\ loc[t].key = key
                                     /\ pc[t] \in {"rl_check", "rl_append",
                                                   "returned", "raised"}}
        past == CallsFor(key)
    IN  IF running # {} THEN loc[CHOOSE t \in running : TRUE].now
        ELSE IF past # <<>> THEN past[Len(past)].now
        ELSE -1

\* The calls on record for key that were admitted at a time in from..to.
AdmittedIn(key, from, to) ==
    SelectSeq(calls, LAMBDA c : c.key = key /\ c.ok /\ c.now >= from /\ c.now <= to)

\* C18: with the calls made one at a time, a bucket holds at most
\* RATE_LIMIT_MAX timestamps, none older than the window at the time of the
\* last call for its key, and no interval as long as the window holds more
\* than RATE_LIMIT_MAX admissions for one key.
C18_SlidingWindow ==
    \A k \in Keys :
        /\ Len(RATE_BUCKET[k]) <= RATE_LIMIT_MAX
        /\ \A i \in 1..Len(RATE_BUCKET[k]) :
              /\ LastCallTime(k) >= 0
              /\ RATE_BUCKET[k][i] >= LastCallTime(k) - RATE_LIMIT_WINDOW_SEC
              /\ RATE_BUCKET[k][i] <= clock
        /\ \A from \in 0..MaxTime :
              Len(AdmittedIn(k, from, from + RATE_LIMIT_WINDOW_SEC)) <= RATE_LIMIT_MAX

\* C18's case: a client with a full window was rejected, and admitted again
\* once the window had passed; its bucket has lost the old timestamps.
C18_Witness ==
    \E k \in Keys :
        LET cs == CallsFor(k)
        IN  /\ Len(cs) >= 4
            /\ cs[1].ok /\ cs[2].ok /\ ~cs[3].ok /\ cs[4].ok
            /\ cs[1].now < cs[4].now - RATE_LIMIT_WINDOW_SEC
            /\ RATE_BUCKET[k] = <<cs[4].now>>

\* Whether the earlier calls on record for the key of call j, and they
\* alone, leave room for it: fewer than RATE_LIMIT_MAX of them were admitted
\* within the window before it.
RoomByOwnCalls(j) ==
    LET mine == {i \in 1..(j - 1) : /\ calls[i].key = calls[j].key
                                    /\ calls[i].ok
                                    /\ calls[i].now >= calls[j].now - RATE_LIMIT_WINDOW_SEC}
    IN  Cardinality(mine) < RATE_LIMIT_MAX

\* Every call on record was admitted exactly when its own key's calls left room.
OwnCallsDecide == \A j \in 1..Len(calls) : calls[j].ok <=> RoomByOwnCalls(j)

\* A step changes the bucket of a key only within a call for that key.
OtherBucketsKept ==
    \A k \in Keys :
        RATE_BUCKET'[k] # RATE_BUCKET[k] =>
            \E t \in Threads : loc[t].key = k /\ pc[t] \in {"rl_prune", "rl_append"}

\* C19: a call for one key leaves the bucket of every other key as it was,
\* and whether a call is admitted is decided by the earlier calls for its own
\* key alone.
C19_PerKey == []OwnCallsDecide /\ [][OtherBucketsKept]_vars

\* C19's case: key A was rejected with its window full, and key B was
\* admitted at the same time and holds that one timestamp.
C19_Witness ==
    \E i, j \in 1..Len(calls) :
        /\ i < j
        /\ calls[i].key = "A" /\ ~calls[i].ok
        /\ calls[j].key = "B" /\ calls[j].ok
        /\ calls[i].now = calls[j].now
        /\ RATE_BUCKET["B"] = <<calls[j].now>>
        /\ Len(RATE_BUCKET["A"]) = RATE_LIMIT_MAX

\* The timestamp of every admitted request in progress or just answered,
\* failed or not, is the newest one in its client's bucket.
AdmissionStays ==
    \A t \in Threads :
        (loc[t].handler \in {"home", "api"} /\ loc[t].rl = "admitted") =>
            LET bucket == RATE_BUCKET[loc[t].key]
            IN  /\ bucket # <<>>
                /\ bucket[Len(bucket)] = loc[t].now
                /\ bucket = loc[t].post

\* A bucket changes only in rate_limit_or_raise: the prune drops the
\* timestamps older than the window and no other, the append adds one.
OnlyWindowRemoves ==
    \A k \in Keys :
        RATE_BUCKET'[k] # RATE_BUCKET[k] =>
            \E t \in Threads :
                /\ loc[t].key = k
                /\ \/ /\ pc[t] = "rl_prune"
                      /\ RATE_BUCKET'[k] =
                            SelectSeq(RATE_BUCKET[k],
                                      LAMBDA ts : ts >= loc[t].now - RATE_LIMIT_WINDOW_SEC)
                   \/ /\ pc[t] = "rl_append"
                      /\ RATE_BUCKET'[k] = Append(RATE_BUCKET[k], loc[t].now)

\* C20: the timestamp of an admission stays in the client's bucket whatever
\* becomes of the analysis; only the prune of a later call removes it, once
\* it is older than the window.
C20_SlotConsumed == []AdmissionStays /\ [][OnlyWindowRemoves]_vars

\* C20's case: no analysis has ever succeeded, and the client is rejected:
\* failed analyses hold all its slots.
C20_Witness ==
    \E t \in Threads :
        /\ loc[t].handler \in {"home", "api"}
        /\ loc[t].rl = "rejected"
        /\ GROQ_API_KEY
        /\ completed = <<>>
        /\ csv.rows = <<>>

====
